---- MODULE Spec2Model ----
(***************************************************************************)
(* The delayed-execution queue of src/rust/lib.rs: one ledger account      *)
(* (accounts[0]) whose data bytes hold a borsh-encoded ContractState, the  *)
(* clock sysvar (accounts[1]) and the entry point process_instruction.     *)
(* The host passes both accounts with every call.                          *)
(* Every call decodes the instruction bytes, loads the state from the      *)
(* account bytes, changes it and writes it back into the same bytes.       *)
(***************************************************************************)
EXTENDS Integers, Sequences, FiniteSets, TLC

VARIABLES
    key,        \* accounts[0].key
    data,       \* accounts[0].data, the account's bytes (fixed length)
    clock,      \* Clock.unix_timestamp of the clock sysvar
    op,         \* the last step: "init", "tick" or the kind of the last call
    arg,        \* the Instruction the last call decoded (NoArg when none)
    result,     \* the ProgramResult of the last call
    loaded,     \* the local `state` right after the load, <<>> when none
    state,      \* the local `state` when the call ended, <<>> when none
    executed    \* the executions the last call reported, in scan order

vars == <<key, data, clock, op, arg, result, loaded, state, executed>>

(***************************************************************************)
(* Bounds of the model.                                                    *)
(***************************************************************************)
MaxQueue == 2       \* entries in the account's bytes at the first call
MaxClock == 31      \* the clock stops advancing here
SlackBytes == 3     \* spare bytes an account may have behind its state

(***************************************************************************)
(* Program constants.                                                      *)
(***************************************************************************)
DEFAULT_DELAY_FOR_CRITICAL_FUNCTION == 30
PUBKEY_BYTES == 32
U64_BYTES == 8
U32_BYTES == 4

(***************************************************************************)
(* Values.  Option<T> is <<>> (None) or <<v>> (Some(v)); a Pubkey is its   *)
(* 32 bytes.                                                               *)
(***************************************************************************)
None == <<>>
Some(v) == <<v>>

\* A key whose first byte is a and whose byte 25 (the lowest byte of its
\* last eight) is d; every other byte is 0.
Pk(a, d) == [i \in 1..PUBKEY_BYTES |-> IF i = 1 THEN a ELSE IF i = 25 THEN d ELSE 0]
KeyA == Pk(1, 0)
KeyB == Pk(2, 7)
Keys == {KeyA, KeyB}

WithdrawAllFunds(amount, target_pubkey) ==
    [kind |-> "WithdrawAllFunds", amount |-> amount, target_pubkey |-> target_pubkey]
DeleteAccount == [kind |-> "DeleteAccount"]

QueuedFunction(function, execution_time, cancelled, initiator, delegate) ==
    [function |-> function, execution_time |-> execution_time,
     cancelled |-> cancelled, initiator |-> initiator, delegate |-> delegate]

ContractState(queued_functions, delegate) ==
    [queued_functions |-> queued_functions, delegate |-> delegate]

EmptyState == ContractState(<<>>, None)

(***************************************************************************)
(* borsh encoding.  Integers are little-endian; the model's integers stay  *)
(* below 2^24, so only the three low bytes can be non-zero.                *)
(***************************************************************************)
Zeros(n) == [i \in 1..n |-> 0]

ToLE(n, width) ==
    [i \in 1..width |-> IF i <= 3 THEN (n \div (256 ^ (i - 1))) % 256 ELSE 0]

\* The value of little-endian bytes; a value of 2^24 or more reads as 2^24.
FromLE(bytes) ==
    IF \E i \in 4..Len(bytes) : bytes[i] # 0
    THEN 16777216
    ELSE bytes[1] + 256 * (IF Len(bytes) >= 2 THEN bytes[2] ELSE 0)
                  + 65536 * (IF Len(bytes) >= 3 THEN bytes[3] ELSE 0)

SerOption(o) == IF o = None THEN <<0>> ELSE <<1>> \o o[1]

SerCriticalFunction(f) ==
    IF f.kind = "WithdrawAllFunds"
    THEN <<0>> \o ToLE(f.amount, U64_BYTES) \o f.target_pubkey
    ELSE <<1>>

SerQueuedFunction(q) ==
    SerCriticalFunction(q.function) \o ToLE(q.execution_time, U64_BYTES)
        \o <<IF q.cancelled THEN 1 ELSE 0>> \o q.initiator \o SerOption(q.delegate)

RECURSIVE SerVec(_)
SerVec(v) == IF v = <<>> THEN <<>> ELSE SerQueuedFunction(Head(v)) \o SerVec(Tail(v))

Serialize(s) ==
    ToLE(Len(s.queued_functions), U32_BYTES) \o SerVec(s.queued_functions)
        \o SerOption(s.delegate)

(***************************************************************************)
(* borsh decoding.  A reader returns [ok, val, rest]: whether the bytes    *)
(* decoded, the value, and the bytes it did not consume.                   *)
(***************************************************************************)
Fail == [ok |-> FALSE, val |-> <<>>, rest |-> <<>>]
Got(v, rest) == [ok |-> TRUE, val |-> v, rest |-> rest]
Drop(bytes, n) == SubSeq(bytes, n + 1, Len(bytes))

ReadInt(bytes, width) ==
    IF Len(bytes) < width THEN Fail
    ELSE Got(FromLE(SubSeq(bytes, 1, width)), Drop(bytes, width))

ReadPubkey(bytes) ==
    IF Len(bytes) < PUBKEY_BYTES THEN Fail
    ELSE Got(SubSeq(bytes, 1, PUBKEY_BYTES), Drop(bytes, PUBKEY_BYTES))

ReadBool(bytes) ==
    IF Len(bytes) < 1 THEN Fail
    ELSE IF bytes[1] > 1 THEN Fail
    ELSE Got(bytes[1] = 1, Drop(bytes, 1))

\* Decode the next field from what the previous one left over.
Bind(r, Field(_, _)) == IF r.ok THEN Field(r.val, r.rest) ELSE Fail

ReadOption(bytes) ==
    IF Len(bytes) < 1 THEN Fail
    ELSE IF bytes[1] = 0 THEN Got(None, Drop(bytes, 1))
    ELSE IF bytes[1] = 1
         THEN Bind(ReadPubkey(Drop(bytes, 1)), LAMBDA k, rest : Got(Some(k), rest))
    ELSE Fail

ReadCriticalFunction(bytes) ==
    IF Len(bytes) < 1 THEN Fail
    ELSE IF bytes[1] = 0
         THEN Bind(ReadInt(Drop(bytes, 1), U64_BYTES), LAMBDA amount, r1 :
              Bind(ReadPubkey(r1), LAMBDA target_pubkey, r2 :
                   Got(WithdrawAllFunds(amount, target_pubkey), r2)))
    ELSE IF bytes[1] = 1 THEN Got(DeleteAccount, Drop(bytes, 1))
    ELSE Fail

ReadQueuedFunction(bytes) ==
    Bind(ReadCriticalFunction(bytes), LAMBDA function, r1 :
    Bind(ReadInt(r1, U64_BYTES), LAMBDA execution_time, r2 :
    Bind(ReadBool(r2), LAMBDA cancelled, r3 :
    Bind(ReadPubkey(r3), LAMBDA initiator, r4 :
    Bind(ReadOption(r4), LAMBDA delegate, r5 :
         Got(QueuedFunction(function, execution_time, cancelled, initiator, delegate),
             r5))))))

RECURSIVE ReadVec(_, _)
ReadVec(bytes, n) ==
    IF n = 0 THEN Got(<<>>, bytes)
    ELSE Bind(ReadQueuedFunction(bytes), LAMBDA q, r1 :
         Bind(ReadVec(r1, n - 1), LAMBDA more, r2 : Got(<<q>> \o more, r2)))

ReadContractState(bytes) ==
    Bind(ReadInt(bytes, U32_BYTES), LAMBDA n, r1 :
    Bind(ReadVec(r1, n), LAMBDA queued_functions, r2 :
    Bind(ReadOption(r2), LAMBDA delegate, r3 :
         Got(ContractState(queued_functions, delegate), r3))))

\* try_from_slice: the decoded value, and an error unless every byte was read.
TryFromSlice(r) == IF r.ok /\ r.rest = <<>> THEN Some(r.val) ELSE None

(***************************************************************************)
(* Instruction::unpack.  The result is a decoded Instruction, an Err with  *)
(* its ProgramError, or a panic (an out-of-range slice aborts the call).   *)
(***************************************************************************)
Err(e) == [kind |-> "Err", error |-> e]
Panic == [kind |-> "Panic"]

Unpack(input) ==
    IF input = <<>> THEN Err("InvalidInstructionData")
    ELSE LET tag == input[1]
             rest == Drop(input, 1)
         IN  IF tag = 0
             THEN LET function == TryFromSlice(ReadCriticalFunction(rest))
                  IN  IF function = None THEN Err("BorshIoError")
                      ELSE IF Len(rest) < U64_BYTES THEN Panic
                      ELSE [kind |-> "QueueCriticalFunction",
                            function |-> function[1],
                            delay_in_seconds |-> FromLE(Drop(rest, Len(rest) - U64_BYTES))]
             ELSE IF tag = 1
             THEN IF Len(rest) < U64_BYTES THEN Err("InvalidInstructionData")
                  ELSE [kind |-> "CancelFunction",
                        function_index |-> FromLE(SubSeq(rest, 1, U64_BYTES))]
             ELSE IF tag = 2 THEN [kind |-> "CheckExecution"]
             ELSE IF tag = 3
             THEN IF Len(rest) < PUBKEY_BYTES THEN Panic
                  ELSE [kind |-> "SetDelegate",
                        delegate_pubkey |-> SubSeq(rest, 1, PUBKEY_BYTES)]
             ELSE Err("InvalidInstructionData")

(***************************************************************************)
(* The load and the save of the account's bytes.                           *)
(***************************************************************************)
\* ContractState::try_from_slice(&account.data.borrow())
Load(bytes) == TryFromSlice(ReadContractState(bytes))

\* queue_function alone takes an account without bytes for the empty state.
LoadOrEmpty(bytes) == IF Len(bytes) > 0 THEN Load(bytes) ELSE Some(EmptyState)

Min(a, b) == IF a <= b THEN a ELSE b

\* What a call leaves behind: its result, the account's bytes, the local
\* state after the load and at the end, and the executions it reported.
Outcome(r, bytes, ld, st, ex) ==
    [result |-> r, data |-> bytes, loaded |-> ld, state |-> st, executed |-> ex]

\* The `?` of a load: a failed load ends the call, the bytes untouched.
Loaded(bytes, ld, Body(_)) ==
    IF ld = None THEN Outcome("BorshIoError", bytes, None, None, <<>>)
    ELSE Body(ld[1])

\* The write of an encoding over the start of the bytes: it goes field by
\* field, the write that finds no room left fails, and what was written
\* before it stays written.
Written(bytes, enc) ==
    SubSeq(enc, 1, Min(Len(enc), Len(bytes))) \o Drop(bytes, Min(Len(enc), Len(bytes)))

Fits(bytes, enc) == Len(enc) <= Len(bytes)

Write(bytes, enc, ld, s, ex) ==
    Outcome(IF Fits(bytes, enc) THEN "Ok" ELSE "BorshIoError",
            Written(bytes, enc), Some(ld), Some(s), ex)

\* state.serialize(&mut &mut account.data.borrow_mut()[..])?
Saved(bytes, ld, s, ex) == Write(bytes, Serialize(s), ld, s, ex)

(***************************************************************************)
(* QueueCriticalFunction                                                   *)
(***************************************************************************)
\* (variant: the requested delay is used)
ActualDelayRequested(function, delay_in_seconds) == delay_in_seconds

\* The delay of the function kind; the requested delay is not read.
ActualDelay(function, delay_in_seconds) ==
    IF function.kind = "WithdrawAllFunds" THEN DEFAULT_DELAY_FOR_CRITICAL_FUNCTION
    ELSE DEFAULT_DELAY_FOR_CRITICAL_FUNCTION

queue_function(k, bytes, now, function, delay_in_seconds) ==
    Loaded(bytes, LoadOrEmpty(bytes), LAMBDA ld :
             Saved(bytes, ld,
                   ContractState(
                       Append(ld.queued_functions,
                              QueuedFunction(function, now + delay_in_seconds,
                                             FALSE, k, None)),
                       ld.delegate),
                   <<>>))

(***************************************************************************)
(* CancelFunction                                                          *)
(***************************************************************************)
\* (variant: an entry without a delegate accepts any caller)
AuthorizedUnlessDelegated(k, queued_func, account_delegate) ==
    ~(k # queued_func.initiator /\ queued_func.delegate # None
        /\ Some(k) # queued_func.delegate)

\* (variant: the delegate of the account may cancel too)
AuthorizedWithAccountDelegate(k, queued_func, account_delegate) ==
    ~(k # queued_func.initiator /\ Some(k) # queued_func.delegate
        /\ Some(k) # account_delegate)

\* The caller is the entry's initiator or its delegate; the delegate of the
\* account is not looked at.
Authorized(k, queued_func, account_delegate) ==
    ~(k # queued_func.initiator /\ Some(k) # queued_func.delegate)

\* (variant: the flag is flipped)
CancelToggled(queued_functions, function_index) ==
    [queued_functions EXCEPT ![function_index + 1].cancelled = ~@]

\* (variant: every entry is flagged)
CancelEvery(queued_functions, function_index) ==
    [i \in 1..Len(queued_functions) |->
        [queued_functions[i] EXCEPT !.cancelled = TRUE]]

\* state.queued_functions[function_index].cancelled = true
CancelAt(queued_functions, function_index) ==
    [queued_functions EXCEPT ![function_index + 1].cancelled = TRUE]

cancel_function(k, bytes, function_index) ==
    Loaded(bytes, Load(bytes), LAMBDA ld :
        IF function_index < Len(ld.queued_functions)
        THEN IF ~Authorized(k, ld.queued_functions[function_index + 1], ld.delegate)
             THEN Outcome("InvalidAccountData", bytes, Some(ld), Some(ld), <<>>)
             ELSE Saved(bytes, ld,
                        ContractState(CancelAt(ld.queued_functions, function_index),
                                      ld.delegate),
                        <<>>)
        ELSE Outcome("InvalidInstructionData", bytes, Some(ld), Some(ld), <<>>))

(***************************************************************************)
(* SetDelegate                                                             *)
(***************************************************************************)
\* (variant: the key is written to every entry's delegate as well)
SetDelegateOnEntries(k, bytes, delegate_pubkey) ==
    Loaded(bytes, Load(bytes), LAMBDA ld :
        Saved(bytes, ld,
              ContractState([i \in 1..Len(ld.queued_functions) |->
                                [ld.queued_functions[i]
                                    EXCEPT !.delegate = Some(delegate_pubkey)]],
                            Some(delegate_pubkey)),
              <<>>))

set_delegate(k, bytes, delegate_pubkey) ==
    Loaded(bytes, Load(bytes), LAMBDA ld :
        Saved(bytes, ld, ContractState(ld.queued_functions, Some(delegate_pubkey)),
              <<>>))

(***************************************************************************)
(* CheckExecution                                                          *)
(***************************************************************************)
\* (variant: the cancelled flag is not looked at)
DueThoughCancelled(func, current_time) == func.execution_time <= current_time

Due(func, current_time) == ~func.cancelled /\ func.execution_time <= current_time

\* The indices (from 0, ascending) the scan pushes to functions_to_remove.
FunctionsToRemove(queued_functions, current_time) ==
    LET IsDue(index) == Due(queued_functions[index + 1], current_time)
    IN  SelectSeq([i \in 1..Len(queued_functions) |-> i - 1], IsDue)

\* (variant: nothing is removed)
RemoveNothing(v, index) == v

\* (variant: the entry behind the index is removed)
RemoveBehind(v, index) == SubSeq(v, 1, index + 1) \o SubSeq(v, index + 3, Len(v))

\* Vec::remove(index)
RemoveAt(v, index) == SubSeq(v, 1, index) \o SubSeq(v, index + 2, Len(v))

\* (variant: the indices are removed in ascending order)
RECURSIVE RemoveForward(_, _)
RemoveForward(v, indices) ==
    IF indices = <<>> THEN v
    ELSE RemoveForward(RemoveAt(v, indices[1]), Tail(indices))

\* for index in functions_to_remove.iter().rev() { remove(*index) }
RECURSIVE RemoveReversed(_, _)
RemoveReversed(v, indices) ==
    IF indices = <<>> THEN v
    ELSE RemoveReversed(RemoveAt(v, indices[Len(indices)]),
                        SubSeq(indices, 1, Len(indices) - 1))

\* The executions the scan reports: the index and the function of each.
Executions(queued_functions, functions_to_remove) ==
    [i \in 1..Len(functions_to_remove) |->
        [index |-> functions_to_remove[i],
         function |-> queued_functions[functions_to_remove[i] + 1].function]]

Swept(bytes, ld, functions_to_remove) ==
    Saved(bytes, ld,
          ContractState(RemoveReversed(ld.queued_functions, functions_to_remove),
                        ld.delegate),
          Executions(ld.queued_functions, functions_to_remove))

check_execution(k, bytes, now) ==
    Loaded(bytes, Load(bytes), LAMBDA ld :
        Swept(bytes, ld, FunctionsToRemove(ld.queued_functions, now)))

(***************************************************************************)
(* process_instruction                                                     *)
(***************************************************************************)
process_instruction(k, bytes, now, instruction) ==
    IF instruction.kind = "Err"
    THEN Outcome(instruction.error, bytes, None, None, <<>>)
    ELSE IF instruction.kind = "Panic"
    THEN Outcome("Panic", bytes, None, None, <<>>)
    ELSE IF instruction.kind = "QueueCriticalFunction"
    THEN queue_function(k, bytes, now, instruction.function,
             ActualDelay(instruction.function, instruction.delay_in_seconds))
    ELSE IF instruction.kind = "CancelFunction"
    THEN cancel_function(k, bytes, instruction.function_index)
    ELSE IF instruction.kind = "SetDelegate"
    THEN set_delegate(k, bytes, instruction.delegate_pubkey)
    ELSE check_execution(k, bytes, now)

(***************************************************************************)
(* The account's bytes before the first call, and the instruction bytes    *)
(* the host delivers.                                                      *)
(***************************************************************************)
SeqsUpTo(S, n) == UNION {[1..m -> S] : m \in 0..n}

\* Entries an account may hold, none cancelled yet: a withdrawal queued
\* at clock 0 by KeyA without a delegate, and a deletion queued at clock 1
\* by KeyB with KeyA as its delegate.
InitEntries ==
    {QueuedFunction(WithdrawAllFunds(100, KeyB),
                    0 + DEFAULT_DELAY_FOR_CRITICAL_FUNCTION, FALSE, KeyA, None),
     QueuedFunction(DeleteAccount,
                    1 + DEFAULT_DELAY_FOR_CRITICAL_FUNCTION, FALSE, KeyB, Some(KeyA))}

InitStates ==
    {ContractState(q, d) : q \in SeqsUpTo(InitEntries, MaxQueue),
                           d \in {None, Some(KeyA)}}

\* An account without bytes, or one that holds a state, exactly or with
\* zeroed spare bytes behind it (a new account is all zeros).
InitData ==
    {<<>>} \cup {Serialize(s) \o Zeros(n) : s \in InitStates, n \in {0, SlackBytes}}

Payloads ==
    {<<>>, <<9>>, <<0>>, <<0, 1>>, <<1, 0, 0>>, <<2>>, <<3, 1>>}
    \cup {<<0>> \o SerCriticalFunction(WithdrawAllFunds(100, k)) : k \in Keys}
    \cup {<<0>> \o SerCriticalFunction(WithdrawAllFunds(100, KeyA)) \o ToLE(5, U64_BYTES)}
    \cup {<<1>> \o ToLE(i, U64_BYTES) : i \in 0..MaxQueue}
    \cup {<<3>> \o k : k \in Keys}

NoArg == [kind |-> "None"]

Init ==
    /\ key \in Keys
    /\ data \in InitData
    /\ clock = DEFAULT_DELAY_FOR_CRITICAL_FUNCTION
    /\ op = "init"
    /\ arg = NoArg
    /\ result = "Ok"
    /\ loaded = None
    /\ state = None
    /\ executed = <<>>

\* One call of the entry point: the instruction is decoded, dispatched, and
\* what the handler leaves behind becomes the new state.
Call(instruction) ==
    \E o \in {process_instruction(key, data, clock, instruction)} :
        /\ op' = instruction.kind
        /\ arg' = instruction
        /\ result' = o.result
        /\ data' = o.data
        /\ loaded' = o.loaded
        /\ state' = o.state
        /\ executed' = o.executed
        /\ UNCHANGED <<key, clock>>

UnpackFails(instruction) ==
    /\ instruction.kind \in {"Err", "Panic"}
    /\ Call(instruction)

QueueCriticalFunction(instruction) ==
    /\ instruction.kind = "QueueCriticalFunction"
    /\ Call(instruction)

CancelFunction(instruction) ==
    /\ instruction.kind = "CancelFunction"
    /\ Call(instruction)

SetDelegate(instruction) ==
    /\ instruction.kind = "SetDelegate"
    /\ Call(instruction)

CheckExecution(instruction) ==
    /\ instruction.kind = "CheckExecution"
    /\ Call(instruction)

\* The host's clock advances between calls.
Tick ==
    /\ clock < MaxClock
    /\ clock' = clock + 1
    /\ op' = "tick"
    /\ arg' = NoArg
    /\ result' = "Ok"
    /\ loaded' = None
    /\ state' = None
    /\ executed' = <<>>
    /\ UNCHANGED <<key, data>>

\* What unpack makes of the instruction bytes the host may deliver.
Instructions == {Unpack(instruction_data) : instruction_data \in Payloads}

Next ==
    \/ \E i \in Instructions : UnpackFails(i)
    \/ \E i \in Instructions : QueueCriticalFunction(i)
    \/ \E i \in Instructions : CancelFunction(i)
    \/ \E i \in Instructions : SetDelegate(i)
    \/ \E i \in Instructions : CheckExecution(i)
    \/ Tick

Spec == Init /\ [][Next]_vars

\* Accounts whose entries are all as queue_function builds them: no entry
\* has a delegate of its own.
QueuedEntries == {[e EXCEPT !.delegate = None] : e \in InitEntries}

QueuedData ==
    {<<>>} \cup {Serialize(ContractState(q, d)) \o Zeros(n) :
                    q \in SeqsUpTo(QueuedEntries, MaxQueue),
                    d \in {None, Some(KeyA)}, n \in {0, SlackBytes}}

InitQueued ==
    /\ key \in Keys
    /\ data \in QueuedData
    /\ clock = DEFAULT_DELAY_FOR_CRITICAL_FUNCTION
    /\ op = "init"
    /\ arg = NoArg
    /\ result = "Ok"
    /\ loaded = None
    /\ state = None
    /\ executed = <<>>

SpecQueued == InitQueued /\ [][Next]_vars

\* The clock keeps advancing (up to the bound).
FairSpec == Spec /\ WF_vars(Tick)

(***************************************************************************)
(* Properties                                                              *)
(***************************************************************************)
IsCall == op \in {"QueueCriticalFunction", "CancelFunction", "SetDelegate",
                  "CheckExecution"}

\* The queue the last call loaded, and the queue it ended with.
LoadedQueue == loaded[1].queued_functions
StateQueue == state[1].queued_functions

\* Delays a caller may ask for, below and above the fixed delay.
RequestedDelays == {0, 31}

\* C1: two queue calls that differ only in the delay they ask for have the
\* same outcome in every reachable state, and the entry a queue call appends has execution_time = now + 30 (the
\* fixed delay of its function kind) and nothing in it comes from the delay
\* the caller sent: the entry is the function, now + 30, not cancelled, the
\* caller as initiator and no delegate.
C1_FixedDelay ==
    /\ \A i \in Instructions : i.kind = "QueueCriticalFunction" =>
           \A o \in {process_instruction(key, data, clock, i)} :
               \A d \in RequestedDelays :
                   process_instruction(key, data, clock,
                                       [i EXCEPT !.delay_in_seconds = d]) = o
    /\ (op = "QueueCriticalFunction" /\ state # None) =>
        /\ Len(StateQueue) = Len(LoadedQueue) + 1
        /\ StateQueue[Len(StateQueue)] =
               QueuedFunction(arg.function,
                              clock + DEFAULT_DELAY_FOR_CRITICAL_FUNCTION,
                              FALSE, key, None)

\* A queue call that asked for a delay of 7 has appended its entry.
C1_Witness ==
    /\ op = "QueueCriticalFunction"
    /\ state # None
    /\ arg.delay_in_seconds = 7
    /\ StateQueue[Len(StateQueue)].execution_time = clock + 30

NotDue(func, now) == func.cancelled \/ func.execution_time > now

\* The entries of q that are not due at now, in their order.
Remaining(q, now) ==
    LET Keep(func) == NotDue(func, now) IN SelectSeq(q, Keep)

\* C2: a sweep that loaded a state removes exactly the entries that are not
\* cancelled and have execution_time <= now, reports exactly those, and
\* ends with the other entries, unchanged and in the same order; that state
\* is what it writes over the start of the account's bytes.
C2_SweepRemovesExactlyDue ==
    (op = "CheckExecution" /\ loaded # None) =>
        /\ result = "Ok"
        /\ StateQueue = Remaining(LoadedQueue, clock)
        /\ state[1].delegate = loaded[1].delegate
        /\ {executed[i].index : i \in 1..Len(executed)} =
               {i \in 0..(Len(LoadedQueue) - 1) : ~NotDue(LoadedQueue[i + 1], clock)}
        /\ Len(executed) = Len(LoadedQueue) - Len(StateQueue)
        /\ SubSeq(data, 1, Len(Serialize(state[1]))) = Serialize(state[1])

\* A sweep removed an entry and kept another one.
C2_Witness ==
    /\ op = "CheckExecution"
    /\ result = "Ok"
    /\ executed # <<>>
    /\ state # None
    /\ StateQueue # <<>>

\* The entry a cancel call addressed, when the index was in range.
CancelInRange ==
    /\ op = "CancelFunction"
    /\ loaded # None
    /\ arg.function_index < Len(LoadedQueue)

Addressed == LoadedQueue[arg.function_index + 1]

IsInitiatorOrDelegate == key = Addressed.initiator \/ Some(key) = Addressed.delegate

\* C3: a cancel succeeds only for the entry's initiator or the entry's own
\* delegate; for any other caller it returns InvalidAccountData, the entry
\* and the rest of the state are as loaded and the bytes are as they were.
C3_CancelAuthorization ==
    CancelInRange =>
        /\ (result = "Ok" => IsInitiatorOrDelegate)
        /\ (~IsInitiatorOrDelegate =>
               /\ result = "InvalidAccountData"
               /\ state = loaded
               /\ data = Serialize(loaded[1]))

\* KeyB called cancel on an entry of KeyA that has no delegate.
C3_Witness ==
    /\ CancelInRange
    /\ key # Addressed.initiator
    /\ Addressed.delegate = None
    /\ ~Addressed.cancelled
    /\ result = "InvalidAccountData"
    /\ ~StateQueue[arg.function_index + 1].cancelled

\* The queue length a cancel call met: that of the loaded state, or 0 on an
\* account with no stored bytes.
StoredQueueLength == IF loaded # None THEN Len(LoadedQueue) ELSE 0

\* C4 (as stated): a cancel with an index >= the queue length, the empty
\* queue of an account with no stored bytes included, returns the range
\* error and the bytes are unchanged.
C4_OutOfRangeIsRangeError ==
    (/\ op = "CancelFunction"
     /\ loaded # None \/ data = <<>>
     /\ arg.function_index >= StoredQueueLength) =>
        /\ result = "InvalidInstructionData"
        /\ loaded # None => state = loaded /\ data = Serialize(loaded[1])

\* C5 (as stated): a call that fails leaves the account's bytes as they
\* were.
C5_FailureLeavesBytes ==
    [][result' # "Ok" => data' = data]_vars

IsCancelled(func) == func.cancelled

\* C6: no sweep executes an entry that was cancelled when the sweep loaded
\* it, and every call ends with the cancelled entries it loaded, unchanged
\* and in the same order.
C6_CancelledNeverExecuted ==
    (IsCall /\ loaded # None) =>
        /\ \A i \in 1..Len(executed) :
               ~LoadedQueue[executed[i].index + 1].cancelled
        /\ IF op = "CheckExecution"
           THEN SelectSeq(StateQueue, IsCancelled) =
                    SelectSeq(LoadedQueue, IsCancelled)
           ELSE \A i \in 1..Len(LoadedQueue) :
                    LoadedQueue[i].cancelled => StateQueue[i] = LoadedQueue[i]

\* A sweep met a cancelled entry whose time had come and kept it.
C6_Witness ==
    /\ op = "CheckExecution"
    /\ result = "Ok"
    /\ loaded # None
    /\ \E i \in 1..Len(LoadedQueue) :
          /\ LoadedQueue[i].cancelled
          /\ LoadedQueue[i].execution_time <= clock
          /\ \E j \in 1..Len(StateQueue) : StateQueue[j] = LoadedQueue[i]

\* C7 (as stated): a queue call at T on an empty account succeeds and
\* stores one entry; a sweep of the stored bytes at T + 29 removes nothing
\* and a sweep at T + 30 removes the entry and reports its function.
C7_QueuedThenSweptAfterDelay ==
    (op = "QueueCriticalFunction" /\ loaded = Some(EmptyState)) =>
        /\ result = "Ok"
        /\ Load(data) = Some(ContractState(
               <<QueuedFunction(arg.function, clock + 30, FALSE, key, None)>>,
               None))
        /\ check_execution(key, data, clock + 29).executed = <<>>
        /\ check_execution(key, data, clock + 30).executed =
               <<[index |-> 0, function |-> arg.function]>>
        /\ check_execution(key, data, clock + 30).state = Some(EmptyState)

\* C8 (as stated): what the next call loads is the state the last
\* successful call saved.
C8_LoadsWhatWasSaved ==
    (IsCall /\ result = "Ok" /\ state # None) => Load(data) = state

AccountDelegates == {None} \cup {Some(k) : k \in Keys}

\* C9: a cancel by the account-level delegate on an entry it neither
\* initiated nor is the per-action delegate of returns InvalidAccountData and
\* changes nothing, and in every reachable state a cancel's result and the
\* queue it ends with are the same for every value of the account-level
\* delegate.
C9_AccountDelegateGivesNoRight ==
    /\ (CancelInRange /\ loaded[1].delegate = Some(key)
           /\ ~IsInitiatorOrDelegate) =>
           /\ result = "InvalidAccountData"
           /\ state = loaded
    /\ \A l \in {Load(data)} : l # None =>
           \A index \in 0..Len(l[1].queued_functions) :
               \A o \in {cancel_function(key, data, index)} :
                   \A d \in AccountDelegates \ {l[1].delegate} :
                       \E p \in {cancel_function(key,
                                    Serialize([l[1] EXCEPT !.delegate = d]),
                                    index)} :
                           /\ p.result = o.result
                           /\ p.state[1].queued_functions =
                                  o.state[1].queued_functions

\* KeyB, set as the account-level delegate, called cancel on an entry of
\* KeyA without a per-action delegate and was refused.
C9_Witness ==
    /\ CancelInRange
    /\ loaded[1].delegate = Some(key)
    /\ key # Addressed.initiator
    /\ Some(key) # Addressed.delegate
    /\ result = "InvalidAccountData"

\* C10: after a successful cancel, the same cancel again succeeds and leaves
\* the bytes and the state as the first one left them.
C10_CancelIdempotent ==
    (op = "CancelFunction" /\ result = "Ok") =>
        \E o \in {cancel_function(key, data, arg.function_index)} :
            /\ o.result = "Ok"
            /\ o.data = data
            /\ o.state = state

\* A cancel succeeded on an entry that was already cancelled.
C10_Witness ==
    /\ CancelInRange
    /\ result = "Ok"
    /\ Addressed.cancelled
    /\ state = loaded

\* C11 (as stated): after a sweep that succeeded, a second sweep at the same
\* clock value succeeds, executes nothing and leaves the bytes as the first
\* sweep left them.
C11_SweepIdempotent ==
    (op = "CheckExecution" /\ result = "Ok") =>
        \E o \in {check_execution(key, data, clock)} :
            /\ o.result = "Ok"
            /\ o.executed = <<>>
            /\ o.data = data
            /\ o.state = state

\* C12 (as stated): a call on an account without bytes loads the empty
\* state, whichever operation it is.
C12_ZeroLengthIsEmptyState ==
    (IsCall /\ Len(data) = 0) => loaded = Some(EmptyState)

\* C13 (as stated): a setDelegate call on a stored state succeeds whatever
\* the previous delegate, stores the new delegate and leaves the queue as
\* it was.
C13_SetDelegateOverwrites ==
    (op = "SetDelegate" /\ loaded # None) =>
        /\ result = "Ok"
        /\ Load(data) = Some(ContractState(LoadedQueue,
                                           Some(arg.delegate_pubkey)))

\* C14 (as stated): unpack returns a command or a decode error for every
\* payload; no payload aborts the call.
C14_UnpackTotal ==
    /\ op # "Panic"
    /\ result # "Panic"

\* C15 (as stated): a queue call on a stored state stores that state with
\* exactly one entry appended: the function, not cancelled, the caller as
\* initiator, no delegate; the earlier entries and the account-level
\* delegate are as they were.
C15_QueueAppendsOne ==
    (op = "QueueCriticalFunction" /\ loaded # None) =>
        /\ result = "Ok"
        /\ \E l \in {Load(data)} :
              /\ l # None
              /\ Len(l[1].queued_functions) = Len(LoadedQueue) + 1
              /\ SubSeq(l[1].queued_functions, 1, Len(LoadedQueue)) = LoadedQueue
              /\ l[1].queued_functions[Len(LoadedQueue) + 1].cancelled = FALSE
              /\ l[1].queued_functions[Len(LoadedQueue) + 1].initiator = key
              /\ l[1].queued_functions[Len(LoadedQueue) + 1].delegate = None
              /\ l[1].delegate = loaded[1].delegate

\* An entry with its cancelled flag left out of the comparison.
Unflagged(func) == [func EXCEPT !.cancelled = FALSE]

\* C16: a call leaves every entry it loaded and keeps as it was, except
\* that a successful cancel turns the cancelled flag of the entry it
\* addressed from false to true; no flag goes back to false, cancel keeps
\* the queue's length, a sweep's remaining entries are entries it loaded,
\* and bytes that load after the call hold the state the call ended with.
C16_EntriesChangeOnlyByCancel ==
    (IsCall /\ loaded # None) =>
        /\ op # "CheckExecution" =>
              /\ Len(StateQueue) >= Len(LoadedQueue)
              /\ \A i \in 1..Len(LoadedQueue) :
                    /\ Unflagged(StateQueue[i]) = Unflagged(LoadedQueue[i])
                    /\ LoadedQueue[i].cancelled => StateQueue[i].cancelled
                    /\ StateQueue[i].cancelled # LoadedQueue[i].cancelled =>
                          /\ op = "CancelFunction"
                          /\ result = "Ok"
                          /\ i = arg.function_index + 1
        /\ op = "CancelFunction" => Len(StateQueue) = Len(LoadedQueue)
        /\ op = "CheckExecution" =>
              \A j \in 1..Len(StateQueue) :
                  \E i \in j..Len(LoadedQueue) : StateQueue[j] = LoadedQueue[i]
        /\ \A l \in {Load(data)} : l # None => l = state

\* A cancel flagged one of two entries and left the other as it was.
C16_Witness ==
    /\ CancelInRange
    /\ result = "Ok"
    /\ Len(LoadedQueue) = 2
    /\ ~Addressed.cancelled
    /\ StateQueue[arg.function_index + 1].cancelled
    /\ \E i \in 1..2 : /\ i # arg.function_index + 1
                       /\ StateQueue[i] = LoadedQueue[i]
                       /\ ~StateQueue[i].cancelled
    /\ Load(data) = state

\* C17: a sweep reports no index twice, removes one entry for each
\* execution it reports, keeps no entry that was due, a further sweep of
\* the bytes it leaves executes nothing at the same clock value, and at any
\* later one it loads, if anything, the entries the first sweep kept.
C17_ExecutedAtMostOnce ==
    (op = "CheckExecution" /\ loaded # None) =>
        /\ \A i, j \in 1..Len(executed) :
               i # j => executed[i].index # executed[j].index
        /\ Len(StateQueue) = Len(LoadedQueue) - Len(executed)
        /\ \A i \in 1..Len(StateQueue) : NotDue(StateQueue[i], clock)
        /\ check_execution(key, data, clock).executed = <<>>
        /\ \A now \in clock..MaxClock :
               \E o \in {check_execution(key, data, now)} :
                   o.loaded = None \/ o.loaded = state

\* A sweep executed every entry of a queue of two.
C17_Witness ==
    /\ op = "CheckExecution"
    /\ result = "Ok"
    /\ Len(executed) = 2
    /\ StateQueue = <<>>

\* The executions a sweep reported for indices before position i.
ExecutedBefore(i) ==
    Cardinality({j \in 1..Len(executed) : executed[j].index + 1 < i})

C19_NoEntryDelegate ==
    /\ state # None =>
           \A i \in 1..Len(StateQueue) : StateQueue[i].delegate = None
    /\ \A l \in {Load(data)} : l # None =>
           \A i \in 1..Len(l[1].queued_functions) :
               l[1].queued_functions[i].delegate = None
    /\ (op = "CancelFunction" /\ result = "Ok") => key = Addressed.initiator

\* After a setDelegate succeeded, the account's delegate is set and the
\* stored entries still have none.
C19_Witness ==
    /\ op = "SetDelegate"
    /\ result = "Ok"
    /\ state[1].delegate = Some(arg.delegate_pubkey)
    /\ StateQueue # <<>>
    /\ \A i \in 1..Len(StateQueue) : StateQueue[i].delegate = None
    /\ Load(data) = state

\* The bytes hold an entry for function f that is not cancelled.
StoredUncancelled(f) ==
    \E l \in {Load(data)} :
        /\ l # None
        /\ \E i \in 1..Len(l[1].queued_functions) :
              /\ l[1].queued_functions[i].function = f
              /\ ~l[1].queued_functions[i].cancelled

ExecutedNow(f) == \E i \in 1..Len(executed) : executed[i].function = f

CancelledNow(f) == CancelInRange /\ result = "Ok" /\ Addressed.function = f

QueuedFunctionKinds == {e.function : e \in InitEntries}

\* C20 (as stated): with the clock advancing, if sweeps keep being called
\* then an entry the bytes hold is eventually executed by a sweep, unless
\* it is cancelled.
C20_EventuallyExecuted ==
    []<>(op = "CheckExecution") =>
        \A f \in QueuedFunctionKinds :
            [](StoredUncancelled(f) => <>(ExecutedNow(f) \/ CancelledNow(f)))

====
